---- MODULE Spec2Model ----
(***************************************************************************)
(* Social-media automation pipeline: the LangGraph orchestrator            *)
(* (src/src/workflow/graph.py), the six agents (src/src/agents/*.py) and   *)
(* the rows they persist (src/src/database/*.py), for one workflow.        *)
(*                                                                         *)
(* Texts are abstracted to tags; every external collaborator (the LLM, the *)
(* Reddit search, the Twitter client, the SQL store) is an environment     *)
(* choice made inside the action that calls it.  A store write may fail;   *)
(* within one operation at most one write is made to fail.                 *)
(***************************************************************************)
EXTENDS Integers, Sequences, FiniteSets, TLC

VARIABLES
    pc,        \* position of the run: the node about to execute, "route", "end" or "raised"
    state,     \* the WorkflowState dict threaded through the nodes
    db,        \* the rows of the store that belong to this workflow
    trace,     \* the nodes invoked so far, in order (the "Node: ..." log lines)
    exc,       \* the exception that escaped the last operation, or None
    ext,       \* what the environment did: calls to PublishService, operations of the
               \* human, drafts produced, the store fault of the last operation
    lastOp     \* the operation the human (the driver script) invoked last, with its argument

vars == <<pc, state, db, trace, exc, ext, lastOp>>

----------------------------------------------------------------------------
\* Bounds of the model

\* how many times the draft node may run and how many drafts may be produced
\* (initial draft, re-drafts and revisions)
MaxDrafts == 3
\* how many review operations the human may invoke
MaxOps == 2

----------------------------------------------------------------------------
\* Values

None == "None"

\* src/src/workflow/state.py: WorkflowStep
WorkflowStep ==
    [START |-> "start", INTENT_UNDERSTANDING |-> "intent_understanding",
     RESEARCH |-> "research", FILTER |-> "filter", SUMMARIZE |-> "summarize",
     DRAFT |-> "draft", HUMAN_REVIEW |-> "human_review", PUBLISH |-> "publish",
     END |-> "end"]

\* src/src/database/models.py: the members of the three enumerations
WorkflowStatus == {"PENDING", "IN_PROGRESS", "COMPLETED", "FAILED", "CANCELLED"}
DraftStatus == {"DRAFT", "PENDING_REVIEW", "APPROVED", "REJECTED", "PUBLISHED"}
FeedbackType == {"APPROVE", "REJECT", "MODIFY"}

\* the queries a run is started with
Queries == {"", "ai news"}
\* the feedback texts and rejection reasons the human may type
FeedbackTexts == {"too long"}
Reasons == {"", "off topic"}
\* the texts the LLM may return for a tweet
TweetTexts == {"tweetA"}

\* the ids of the Reddit posts
PostIds == {"a", "b"}
\* a Reddit post, reduced to its id and its engagement score
Post(id, eng) == [post_id |-> id, engagement_score |-> eng]
\* what the Reddit search may return (discovery order)
SearchResults ==
    { <<>>,
      <<Post("a", 0), Post("b", 20)>>,
      <<Post("a", 20), Post("a", 20)>> }

\* relevance scores the LLM may give, in tenths, per post id
RelevanceMaps ==
    { [a |-> 10, b |-> 0] }

\* Floats are counted in tenths (0.5 is 5).  NaN is the one float that is not a
\* number: json.loads reads the literal NaN and float() the string "nan".
NaN == 99999
\* the relevance of a post the LLM gave no score for (0.5)
Neutral == 5

\* x < y and x >= y on floats: every comparison with NaN is false
FloatLt(x, y) == x # NaN /\ y # NaN /\ x < y
FloatGe(x, y) == x # NaN /\ y # NaN /\ x >= y

----------------------------------------------------------------------------
\* Sequence helpers

RECURSIVE InsertDesc(_, _, _)
\* insert x into the descending sequence s before the first element whose key
\* is less than x's (after every element whose key is >= x's)
InsertDesc(s, x, key) ==
    IF s = <<>> THEN <<x>>
    ELSE IF FloatLt(s[1][key], x[key]) THEN <<x>> \o s
    ELSE <<s[1]>> \o InsertDesc(Tail(s), x, key)

RECURSIVE SortDesc(_, _)
\* Python's sorted(..., reverse=True) and list.sort(reverse=True): stable,
\* descending by key.  Keys that hold a NaN have no order; they are left where
\* the insertion puts them.
SortDesc(s, key) ==
    IF s = <<>> THEN <<>>
    ELSE InsertDesc(SortDesc(SubSeq(s, 1, Len(s) - 1), key), s[Len(s)], key)

\* the slice forgotten: every scored post is kept
TakeAll(s, n) == s

Take(s, n) == SubSeq(s, 1, IF Len(s) < n THEN Len(s) ELSE n)

MaxOf(S) == CHOOSE x \in S : \A y \in S : y <= x

Min(a, b) == IF a < b THEN a ELSE b

Count(s, P(_)) == Cardinality({i \in 1..Len(s) : P(s[i])})

----------------------------------------------------------------------------
\* Initial state

\* src/src/workflow/state.py: create_initial_state; a key the dict does not hold yet
\* reads as None, FALSE, 0 or the empty list (what state.get gives the code).
\* A tweet id is the number of the create_tweet call that returned it, and the
\* URL, which the code builds from the id alone, is represented by the id.
create_initial_state(user_query, workflow_id) ==
    [workflow_id |-> workflow_id,
     current_step |-> WorkflowStep.START,
     user_query |-> user_query,
     draft_version |-> 0,
     published |-> FALSE,
     topic |-> None, scope |-> None, tone |-> None,
     raw_tweets |-> <<>>, filtered_tweets |-> <<>>,
     summary |-> None, key_trends |-> None, expert_opinions |-> None,
     draft_content |-> None, draft_id |-> 0,
     review_requested |-> FALSE, approved |-> FALSE,
     revision_requested |-> FALSE, revision_feedback |-> None,
     rejected |-> FALSE,
     tweet_id |-> 0, tweet_url |-> 0,
     error |-> None]

\* src/src/database/db_manager.py: create_workflow; the other tables are empty
create_workflow ==
    [wf_status |-> "PENDING", wf_error |-> None,
     intents |-> <<>>, results |-> <<>>, filtered |-> <<>>, insights |-> <<>>,
     drafts |-> <<>>, feedback |-> <<>>, posts |-> <<>>]

NoOp == [name |-> "run", arg |-> None]

Init ==
    /\ pc = "intent"
    /\ \E q \in Queries : state = create_initial_state(q, 1)
    /\ db = create_workflow
    /\ trace = <<>>
    /\ exc = None
    /\ ext = [publish_calls |-> 0, tweets |-> 0, ops |-> 0, decided |-> FALSE,
              revision_requests |-> 0, drafts_produced |-> 0, redrafts |-> 0,
              dbfail |-> 0]
    /\ lastOp = NoOp

----------------------------------------------------------------------------
\* The agents.  Each operator is one method: it takes the state dict, the store
\* and the outcomes of the external calls the method makes, and gives the state
\* it returns, the store it leaves and the exception that escapes it (None when
\* it returns normally).  dbfail = k makes the k-th store access of the method
\* fail (0: none fails).

Result(s, d, e) == [state |-> s, db |-> d, exc |-> e]

Falsy(v) == v \in {None, ""}

\* a key the JSON object does not hold, and dict.get on it
Missing == "Missing"
Get(v, default) == IF v = Missing THEN default ELSE v

\* an answer of the LLM to the intent prompt: the call raises ("fail"), the text
\* is no JSON ("notjson"), the JSON is a list ("notobject"), or it is an object
\* ("ok") with the given values under "topic", "scope" and "tone"
IntentAnswer(kind, topic, scope, tone) ==
    [kind |-> kind, topic |-> topic, scope |-> scope, tone |-> tone]

FailedIntent == IntentAnswer("fail", Missing, Missing, Missing)
OkIntent == IntentAnswer("ok", "ai", "latest", "informative")

\* the answers a run of the graph gets: the call raises, the text is no JSON,
\* a JSON object with the three fields, a JSON object without "topic"
IntentResponses ==
    {FailedIntent, IntentAnswer("notjson", Missing, Missing, Missing),
     OkIntent, IntentAnswer("ok", Missing, "latest", "informative")}

\* src/src/agents/intent_agent.py: IntentAgent.process; workflow_id 0 is a state
\* without workflow_id
IntentAgent_process(s, d, llm, dbfail) ==
    IF s.user_query = ""
    THEN Result([s EXCEPT !.error = "No user query provided"], d, None)
    ELSE IF llm.kind \in {"fail", "notobject"}
    THEN Result([s EXCEPT !.error = "Intent extraction failed"], d, None)
    ELSE IF llm.kind = "notjson"
    THEN Result([s EXCEPT !.error = "Failed to parse intent"], d, None)
    ELSE LET s1 == [s EXCEPT !.topic = Get(llm.topic, ""),
                             !.scope = Get(llm.scope, "latest"),
                             !.tone = Get(llm.tone, "informative"),
                             !.current_step = WorkflowStep.INTENT_UNDERSTANDING]
         IN  IF s.workflow_id = 0 THEN Result(s1, d, None)
             ELSE IF dbfail = 1
             THEN Result([s1 EXCEPT !.error = "Intent extraction failed"], d, None)
             ELSE Result(s1,
                         [d EXCEPT !.intents = Append(@, [topic |-> s1.topic,
                                                          scope |-> s1.scope,
                                                          tone |-> s1.tone])],
                         None)

\* answers of the LLM to the strategy prompt
StrategyResponses == {"fail", "notjson", "ok"}

RECURSIVE SaveResultsKeepingDuplicates(_, _, _, _)
\* the save loop on a table whose tweet_id column is not unique
SaveResultsKeepingDuplicates(rows, posts, i, dbfail) ==
    IF i > Len(posts) THEN rows
    ELSE LET row == [id |-> Len(rows) + 1, tweet_id |-> posts[i].post_id,
                     engagement_score |-> posts[i].engagement_score]
         IN  SaveResultsKeepingDuplicates(IF dbfail = i THEN rows ELSE Append(rows, row),
                                          posts, i + 1, dbfail)

RECURSIVE SaveResults(_, _, _, _)
\* src/src/agents/research_agent.py: the loop of process that saves each post;
\* an insert that fails (the store, or the unique tweet_id) is skipped
SaveResults(rows, posts, i, dbfail) ==
    IF i > Len(posts) THEN rows
    ELSE LET dup == \E r \in 1..Len(rows) : rows[r].tweet_id = posts[i].post_id
             row == [id |-> Len(rows) + 1, tweet_id |-> posts[i].post_id,
                     engagement_score |-> posts[i].engagement_score]
         IN  SaveResults(IF dup \/ dbfail = i THEN rows ELSE Append(rows, row),
                         posts, i + 1, dbfail)

\* src/src/agents/research_agent.py: ResearchAgent.process; llm is the kind of
\* answer the strategy prompt got and found what _search_reddit returned
ResearchAgent_process(s, d, llm, found, dbfail) ==
    IF Falsy(s.topic)
    THEN Result([s EXCEPT !.error = "No topic provided for research"], d, None)
    ELSE IF llm = "fail"
    THEN Result(s, d, "RuntimeError")
    ELSE IF llm = "notobject"
    THEN Result(s, d, "TypeError")
    ELSE LET sorted_posts == SortDesc(found, "engagement_score")
         IN  Result([s EXCEPT !.raw_tweets = sorted_posts,
                              !.current_step = WorkflowStep.RESEARCH],
                    [d EXCEPT !.results = SaveResults(@, sorted_posts, 1, dbfail)],
                    None)

\* src/src/workflow/graph.py: FilteringAgent(db_manager=db_manager, top_k=5)
top_k == 5

\* the value under "score" in an item of the response: a JSON number, a string
\* that is no number, null, or no "score" key at all
Num(v) == [type |-> "number", value |-> v]
NotANumber == [type |-> "string", value |-> 0]
Null == [type |-> "null", value |-> 0]
NoScore == [type |-> "absent", value |-> 0]

\* an item of the "scores" list; post_id "" is an item without "post_id"
ScoreItem(id, score) == [post_id |-> id, score |-> score]

\* an answer of the LLM to the scoring prompt: the call raises ("fail"), the
\* text is no JSON ("notjson"), the JSON is no object ("notobject"), or it is
\* an object whose "scores" list holds the items ("ok")
ScoreResponse(kind, items) == [kind |-> kind, items |-> items]

\* the items of an answer that scores post a with m.a and post b with m.b
ItemsOf(m) == <<ScoreItem("a", Num(m.a)), ScoreItem("b", Num(m.b))>>

\* the answers a run of the graph gets
ScoreResponses ==
    {ScoreResponse(k, <<>>) : k \in {"fail", "notjson"}}
    \cup {ScoreResponse("ok", ItemsOf(m)) : m \in RelevanceMaps}

\* the relevance of every post before an item is read: relevance_scores.get
\* gives 0.5 for a post_id the mapping does not hold
NeutralScores == [id \in PostIds |-> Neutral]

RECURSIVE ParseScores(_, _, _)
\* src/src/agents/filtering_agent.py: the loop of _score_posts over the items;
\* float() raises ValueError on a string that is no number, TypeError on null
ParseScores(items, i, scores) ==
    IF i > Len(items) THEN [exc |-> None, scores |-> scores]
    ELSE LET item == items[i]
         IN  IF item.post_id = "" THEN ParseScores(items, i + 1, scores)
             ELSE IF item.score.type = "string"
             THEN [exc |-> "ValueError", scores |-> scores]
             ELSE IF item.score.type = "null"
             THEN [exc |-> "TypeError", scores |-> scores]
             ELSE ParseScores(items, i + 1,
                              [scores EXCEPT ![item.post_id] =
                                  IF item.score.type = "absent" THEN Neutral
                                  ELSE item.score.value])

\* src/src/agents/filtering_agent.py: FilteringAgent._score_posts; the except
\* clause catches JSONDecodeError, KeyError and ValueError only
score_posts(posts, llm) ==
    IF llm.kind = "fail" THEN [exc |-> "RuntimeError", scores |-> NeutralScores]
    ELSE IF llm.kind = "notjson" THEN [exc |-> None, scores |-> NeutralScores]
    ELSE IF llm.kind = "notobject"
    THEN [exc |-> "AttributeError", scores |-> NeutralScores]
    ELSE LET parsed == ParseScores(llm.items, 1, NeutralScores)
         IN  IF parsed.exc = "ValueError"
             THEN [exc |-> None, scores |-> NeutralScores]
             ELSE parsed

\* src/src/agents/filtering_agent.py: the scoring loop of process; combined_score
\* (0.6 * relevance + 0.4 * engagement / max_engagement) is counted in units of
\* 1 / (100 * |max_engagement|), the same unit for every post of one call
ScorePosts(raw_posts, relevance_scores) ==
    LET top == MaxOf({raw_posts[i].engagement_score : i \in 1..Len(raw_posts)})
        max_engagement == IF top = 0 THEN 1 ELSE top
        size == IF max_engagement < 0 THEN 0 - max_engagement ELSE max_engagement
        sign == IF max_engagement < 0 THEN 0 - 1 ELSE 1
        relevance(p) == relevance_scores[p.post_id]
    IN  [i \in 1..Len(raw_posts) |->
            [post_id |-> raw_posts[i].post_id,
             engagement_score |-> raw_posts[i].engagement_score,
             relevance_score |-> relevance(raw_posts[i]),
             combined_score |->
                 IF relevance(raw_posts[i]) = NaN THEN NaN
                 ELSE 6 * relevance(raw_posts[i]) * size
                      + 40 * raw_posts[i].engagement_score * sign]]

RECURSIVE SaveFiltered(_, _, _, _, _)
\* src/src/agents/filtering_agent.py: the loop of process that saves the ranked posts
SaveFiltered(rows, results, posts, rank, dbfail) ==
    IF rank > Len(posts) THEN rows
    ELSE LET hits == {r \in 1..Len(results) : results[r].tweet_id = posts[rank].post_id}
             row == [research_result_id |-> results[MaxOf(hits)].id, rank |-> rank,
                     relevance_score |-> posts[rank].relevance_score]
         IN  SaveFiltered(IF hits = {} \/ dbfail = rank + 1 THEN rows ELSE Append(rows, row),
                          results, posts, rank + 1, dbfail)

\* src/src/agents/filtering_agent.py: FilteringAgent.process of an agent
\* constructed with top_k = k
FilteringAgent_process_k(s, d, llm, dbfail, k) ==
    IF s.raw_tweets = <<>>
    THEN Result([s EXCEPT !.filtered_tweets = <<>>], d, None)
    ELSE LET scored == score_posts(s.raw_tweets, llm)
             filtered_posts ==
                 Take(SortDesc(ScorePosts(s.raw_tweets, scored.scores),
                               "combined_score"), k)
         IN  IF scored.exc # None THEN Result(s, d, scored.exc)
             ELSE IF dbfail = 1 THEN Result(s, d, "SQLAlchemyError")
             ELSE Result([s EXCEPT !.filtered_tweets = filtered_posts,
                                   !.current_step = WorkflowStep.FILTER],
                         [d EXCEPT !.filtered =
                              SaveFiltered(@, d.results, filtered_posts, 1, dbfail)],
                         None)

\* src/src/agents/filtering_agent.py: FilteringAgent.process of the graph's agent
FilteringAgent_process(s, d, llm, dbfail) ==
    FilteringAgent_process_k(s, d, llm, dbfail, top_k)

\* answers of the LLM to the summary prompt: the call raises, the text is no JSON,
\* a JSON object with the fields, a JSON object without "summary"
SummaryResponses == {"fail", "notjson", "ok", "nosummary"}

\* process without the test for an empty ranked list
SummarizationAgent_process_unguarded(s, d, llm, dbfail) ==
    IF llm = "fail"
    THEN Result(s, d, "UnboundLocalError")
    ELSE IF llm = "notjson"
    THEN Result([s EXCEPT !.error = "Failed to generate insights"], d, None)
    ELSE LET s1 == [s EXCEPT !.summary = IF llm = "nosummary" THEN "" ELSE "summary",
                             !.key_trends = "trends",
                             !.expert_opinions = "opinions",
                             !.current_step = WorkflowStep.SUMMARIZE]
         IN  Result(s1,
                    IF dbfail = 1 THEN d
                    ELSE [d EXCEPT !.insights = Append(@, [summary |-> s1.summary])],
                    None)

\* src/src/agents/summarization_agent.py: SummarizationAgent.process
SummarizationAgent_process(s, d, llm, dbfail) ==
    IF s.filtered_tweets = <<>>
    THEN Result([s EXCEPT !.error = "No filtered posts to summarize"], d, None)
    ELSE IF llm = "fail"
    THEN Result(s, d, "UnboundLocalError")
    ELSE IF llm = "notjson"
    THEN Result([s EXCEPT !.error = "Failed to generate insights"], d, None)
    ELSE LET s1 == [s EXCEPT !.summary = IF llm = "nosummary" THEN "" ELSE "summary",
                             !.key_trends = "trends",
                             !.expert_opinions = "opinions",
                             !.current_step = WorkflowStep.SUMMARIZE]
         IN  Result(s1,
                    IF dbfail = 1 THEN d
                    ELSE [d EXCEPT !.insights = Append(@, [summary |-> s1.summary])],
                    None)

\* answers of the LLM to a tweet prompt
TweetResponses == {"fail"} \cup TweetTexts

\* src/src/agents/drafting_agent.py: DraftingAgent._create_draft
create_draft_text(llm) == IF llm = "fail" THEN "fallback" ELSE llm

\* the row a new Draft gets: the next autoincrement id, the given version, status DRAFT
DraftRow(d, content, version) ==
    [id |-> Len(d.drafts) + 1, version |-> version, content |-> content,
     status |-> "DRAFT"]

\* src/src/agents/drafting_agent.py: DraftingAgent.process
DraftingAgent_process(s, d, llm, dbfail) ==
    IF Falsy(s.summary)
    THEN Result([s EXCEPT !.error = "No summary available for drafting"], d, None)
    ELSE LET s1 == [s EXCEPT !.draft_content = create_draft_text(llm),
                             !.draft_version = 1,
                             !.current_step = WorkflowStep.DRAFT]
             row == DraftRow(d, s1.draft_content, 1)
         IN  IF dbfail = 1
             THEN Result(s1, d, None)
             ELSE Result([s1 EXCEPT !.draft_id = row.id],
                         [d EXCEPT !.drafts = Append(@, row)],
                         None)

\* whether process produced a draft (it did not return early with an error)
Drafted(s) == ~Falsy(s.summary)

\* create_revision writing the new text over the latest Draft row
create_revision_overwriting(s, d, feedback, llm, dbfail) ==
    LET version == s.draft_version + 1
    IN  IF llm = "fail"
        THEN Result([s EXCEPT !.error = "Failed to create revision"], d, None)
        ELSE LET s1 == [s EXCEPT !.draft_content = llm, !.draft_version = version]
                 row == DraftRow(d, llm, version)
             IN  IF dbfail = 1
                 THEN Result(s1, d, None)
                 ELSE Result([s1 EXCEPT !.draft_id = row.id],
                             [d EXCEPT !.drafts =
                                  Append(SubSeq(@, 1, Len(@) - 1), row)],
                             None)

\* create_revision counting the version before the LLM is called
create_revision_counting_first(s, d, feedback, llm, dbfail) ==
    LET version == s.draft_version + 1
    IN  IF llm = "fail"
        THEN Result([s EXCEPT !.error = "Failed to create revision",
                              !.draft_version = version], d, None)
        ELSE LET s1 == [s EXCEPT !.draft_content = llm, !.draft_version = version]
                 row == DraftRow(d, llm, version)
             IN  IF dbfail = 1
                 THEN Result(s1, d, None)
                 ELSE Result([s1 EXCEPT !.draft_id = row.id],
                             [d EXCEPT !.drafts = Append(@, row)],
                             None)

\* src/src/agents/drafting_agent.py: DraftingAgent.create_revision
DraftingAgent_create_revision(s, d, feedback, llm, dbfail) ==
    LET version == s.draft_version + 1
    IN  IF llm = "fail"
        THEN Result([s EXCEPT !.error = "Failed to create revision"], d, None)
        ELSE LET s1 == [s EXCEPT !.draft_content = llm, !.draft_version = version]
                 row == DraftRow(d, llm, version)
             IN  IF dbfail = 1
                 THEN Result(s1, d, None)
                 ELSE Result([s1 EXCEPT !.draft_id = row.id],
                             [d EXCEPT !.drafts = Append(@, row)],
                             None)

\* src/src/database/db_manager.py: update_workflow_status
update_workflow_status(d, status, error_message) ==
    [d EXCEPT !.wf_status = status,
              !.wf_error = IF Falsy(error_message) THEN @ ELSE error_message]

\* a session block that adds one Feedback row and sets the status of the Draft
\* row draft_id (src/src/agents/publishing_agent.py, lines 91-103 and 160-172)
FeedbackSession(d, draft_id, feedback_type, comments, draft_status) ==
    [d EXCEPT !.feedback = Append(@, [draft_id |-> draft_id,
                                      feedback_type |-> feedback_type,
                                      comments |-> comments]),
              !.drafts = [i \in 1..Len(@) |->
                            IF @[i].id = draft_id
                            THEN [@[i] EXCEPT !.status = draft_status]
                            ELSE @[i]]]

\* src/src/database/db_manager.py: create_published_post (workflow_id is unique)
create_published_post(d, draft_id, tweet) ==
    [d EXCEPT !.posts = Append(@, [draft_id |-> draft_id, twitter_post_id |-> tweet])]

\* request_human_review that also clears the query it has presented
request_human_review_clearing_query(s) ==
    [s EXCEPT !.review_requested = TRUE,
              !.current_step = WorkflowStep.HUMAN_REVIEW,
              !.user_query = ""]

\* src/src/agents/publishing_agent.py: PublishingAgent.request_human_review
request_human_review(s) ==
    [s EXCEPT !.review_requested = TRUE,
              !.current_step = WorkflowStep.HUMAN_REVIEW]

\* the except branch without the status update
ApprovalFailedSilently(s, d, dbfail) ==
    Result([s EXCEPT !.error = "Publishing failed"], d, None)

\* src/src/agents/publishing_agent.py: the except branch of handle_approval
ApprovalFailed(s, d, dbfail) ==
    IF dbfail
    THEN Result([s EXCEPT !.error = "Publishing failed"], d, "SQLAlchemyError")
    ELSE Result([s EXCEPT !.error = "Publishing failed"],
                update_workflow_status(d, "FAILED", "publish error"), None)

\* src/src/agents/publishing_agent.py: PublishingAgent.handle_approval;
\* tweet is the id create_tweet returns, 0 when the call raises
handle_approval(s, d, tweet, dbfail) ==
    IF tweet = 0
    THEN ApprovalFailed(s, d, dbfail = 1)
    ELSE LET done == [s EXCEPT !.published = TRUE, !.tweet_id = tweet,
                               !.tweet_url = tweet,
                               !.current_step = WorkflowStep.PUBLISH]
             d1 == FeedbackSession(d, s.draft_id, "APPROVE",
                                   "Approved for publishing", "APPROVED")
             d2 == create_published_post(d1, s.draft_id, tweet)
             d3 == update_workflow_status(d2, "COMPLETED", None)
         IN  IF s.draft_id = 0 THEN Result(done, d, None)
             ELSE IF dbfail = 1 THEN ApprovalFailed(s, d, FALSE)
             ELSE IF dbfail = 2 \/ d1.posts # <<>> THEN ApprovalFailed(s, d1, FALSE)
             ELSE IF dbfail = 3 THEN ApprovalFailed(s, d2, FALSE)
             ELSE Result(done, d3, None)

\* src/src/agents/publishing_agent.py, line 178: f"Draft rejected: {reason}"
RejectionMessage(reason) ==
    IF reason = "" THEN "Draft rejected: " ELSE "Draft rejected: off topic"

\* src/src/agents/publishing_agent.py: PublishingAgent.handle_rejection
handle_rejection(s, d, reason, dbfail) ==
    LET d1 == FeedbackSession(d, s.draft_id, "REJECT",
                              IF reason = "" THEN "Rejected" ELSE reason, "REJECTED")
        d2 == update_workflow_status(d1, "FAILED", RejectionMessage(reason))
    IN  IF s.draft_id = 0 THEN Result([s EXCEPT !.rejected = TRUE], d, None)
        ELSE IF dbfail = 1 THEN Result(s, d, "SQLAlchemyError")
        ELSE IF dbfail = 2 THEN Result(s, d1, "SQLAlchemyError")
        ELSE Result([s EXCEPT !.rejected = TRUE], d2, None)

\* src/src/agents/publishing_agent.py: PublishingAgent.handle_revision_request;
\* FeedbackType.REVISE is evaluated inside the session block
handle_revision_request(s, d, feedback, dbfail) ==
    LET asked == [s EXCEPT !.revision_requested = TRUE,
                           !.revision_feedback = feedback]
    IN  IF s.draft_id = 0 THEN Result(asked, d, None)
        ELSE IF "REVISE" \notin FeedbackType THEN Result(s, d, "AttributeError")
        ELSE IF dbfail = 1 THEN Result(s, d, "SQLAlchemyError")
        ELSE Result(asked,
                    [d EXCEPT !.feedback = Append(@, [draft_id |-> s.draft_id,
                                                      feedback_type |-> "REVISE",
                                                      comments |-> feedback])],
                    None)

----------------------------------------------------------------------------
\* The graph

\* the edges with research wired straight to summarize
EdgeSkippingFilter(node) ==
    CASE node = "intent" -> "research"
      [] node = "research" -> "summarize"
      [] node = "filter" -> "summarize"
      [] node = "summarize" -> "draft"
      [] node = "draft" -> "review"
      [] node = "publish" -> "end"

\* src/src/workflow/graph.py: the add_edge calls of _build_graph
Edge(node) ==
    CASE node = "intent" -> "research"
      [] node = "research" -> "filter"
      [] node = "filter" -> "summarize"
      [] node = "summarize" -> "draft"
      [] node = "draft" -> "review"
      [] node = "publish" -> "end"

\* _should_publish with the two tests in the other order
should_publish_revision_first(s) ==
    IF s.revision_requested THEN "revise"
    ELSE IF s.approved THEN "publish"
    ELSE "end"

\* src/src/workflow/graph.py: WorkflowGraph._should_publish
should_publish(s) ==
    IF s.approved THEN "publish"
    ELSE IF s.revision_requested THEN "revise"
    ELSE "end"

\* the mapping with the revision loop re-entering at summarize
ConditionalEdgeToSummarize(label) ==
    CASE label = "publish" -> "publish"
      [] label = "revise" -> "summarize"
      [] label = "end" -> "end"

\* src/src/workflow/graph.py: the mapping given to add_conditional_edges
ConditionalEdge(label) ==
    CASE label = "publish" -> "publish"
      [] label = "revise" -> "draft"
      [] label = "end" -> "end"

\* a node function ran and gave r: the state it returns is the state of the run,
\* and an exception that escapes it ends the run
RunNode(node, r) ==
    /\ state' = r.state
    /\ db' = r.db
    /\ exc' = r.exc
    /\ trace' = Append(trace, node)
    /\ pc' = IF r.exc # None THEN "raised"
             ELSE IF node = "review" THEN "route" ELSE Edge(node)

IntentNode ==
    /\ pc = "intent"
    /\ \E llm \in IntentResponses, dbfail \in 0..1 :
           /\ RunNode("intent", IntentAgent_process(state, db, llm, dbfail))
           /\ ext' = [ext EXCEPT !.dbfail = dbfail]
    /\ UNCHANGED lastOp

ResearchNode ==
    /\ pc = "research"
    /\ \E llm \in StrategyResponses, found \in SearchResults :
         \E dbfail \in 0..Len(found) :
           /\ RunNode("research", ResearchAgent_process(state, db, llm, found, dbfail))
           /\ ext' = [ext EXCEPT !.dbfail = dbfail]
    /\ UNCHANGED lastOp

FilterNode ==
    /\ pc = "filter"
    /\ \E llm \in ScoreResponses, dbfail \in 0..(1 + Len(state.raw_tweets)) :
           /\ RunNode("filter", FilteringAgent_process(state, db, llm, dbfail))
           /\ ext' = [ext EXCEPT !.dbfail = dbfail]
    /\ UNCHANGED lastOp

SummarizeNode ==
    /\ pc = "summarize"
    /\ \E llm \in SummaryResponses, dbfail \in 0..1 :
           /\ RunNode("summarize", SummarizationAgent_process(state, db, llm, dbfail))
           /\ ext' = [ext EXCEPT !.dbfail = dbfail]
    /\ UNCHANGED lastOp

DraftNode ==
    /\ pc = "draft"
    /\ ext.drafts_produced < MaxDrafts
    /\ Count(trace, LAMBDA n : n = "draft") < MaxDrafts
    /\ \E llm \in TweetResponses, dbfail \in 0..1 :
           /\ RunNode("draft", DraftingAgent_process(state, db, llm, dbfail))
           /\ ext' = [ext EXCEPT !.dbfail = dbfail,
                                 !.drafts_produced = IF Drafted(state) THEN @ + 1 ELSE @]
    /\ UNCHANGED lastOp

ReviewNode ==
    /\ pc = "review"
    /\ RunNode("review", Result(request_human_review(state), db, None))
    /\ ext' = [ext EXCEPT !.decided = FALSE, !.dbfail = 0]
    /\ UNCHANGED lastOp

\* the conditional edge out of review
Route ==
    /\ pc = "route"
    /\ pc' = ConditionalEdge(should_publish(state))
    /\ ext' = [ext EXCEPT !.redrafts = IF pc' = "draft" THEN @ + 1 ELSE @]
    /\ UNCHANGED <<state, db, trace, exc, lastOp>>

PublishNode ==
    /\ pc = "publish"
    /\ \E tweet \in {0, ext.publish_calls + 1}, dbfail \in 0..3 :
           /\ RunNode("publish", handle_approval(state, db, tweet, dbfail))
           /\ ext' = [ext EXCEPT !.publish_calls = @ + 1,
                                 !.tweets = IF tweet = 0 THEN @ ELSE @ + 1,
                                 !.dbfail = dbfail]
    /\ UNCHANGED lastOp

----------------------------------------------------------------------------
\* The human reviewer.  Inside a run the decision is made on the state the review
\* node returned, before the conditional edge reads it; after a run has returned,
\* the driver script calls the review operations on the final state
\* (demo_complete_pipeline.py).

\* one operation of the human: r is what the called method gives
HumanOp(name, arg, r) ==
    /\ ext.ops < MaxOps
    /\ state' = r.state
    /\ db' = r.db
    /\ exc' = r.exc
    /\ lastOp' = [name |-> name, arg |-> arg]
    /\ UNCHANGED <<pc, trace>>

Reviewing == state.review_requested /\ pc \in {"route", "end"}

\* src/src/workflow/graph.py, line 132: the approval the conditional edge reads
SetApproved ==
    /\ pc = "route"
    /\ HumanOp("approve", None, Result([state EXCEPT !.approved = TRUE], db, None))
    /\ ext' = [ext EXCEPT !.ops = @ + 1, !.decided = TRUE, !.dbfail = 0]

\* demo_complete_pipeline.py, choice 1
Approve ==
    /\ Reviewing /\ pc = "end"
    /\ \E tweet \in {0, ext.publish_calls + 1}, dbfail \in 0..3 :
           /\ HumanOp("handle_approval", None, handle_approval(state, db, tweet, dbfail))
           /\ ext' = [ext EXCEPT !.ops = @ + 1, !.decided = TRUE,
                                 !.publish_calls = @ + 1,
                                 !.tweets = IF tweet = 0 THEN @ ELSE @ + 1,
                                 !.dbfail = dbfail]

\* demo_complete_pipeline.py, choice 3
Reject ==
    /\ Reviewing
    /\ \E reason \in Reasons, dbfail \in 0..2 :
           /\ HumanOp("handle_rejection", reason,
                      handle_rejection(state, db, reason, dbfail))
           /\ ext' = [ext EXCEPT !.ops = @ + 1, !.decided = TRUE, !.dbfail = dbfail]

\* demo_complete_pipeline.py, choice 2, first call
RequestRevision ==
    /\ Reviewing
    /\ \E feedback \in FeedbackTexts, dbfail \in 0..1 :
         LET r == handle_revision_request(state, db, feedback, dbfail)
         IN  /\ HumanOp("handle_revision_request", feedback, r)
             /\ ext' = [ext EXCEPT !.ops = @ + 1, !.decided = TRUE,
                                   !.dbfail = dbfail,
                                   !.revision_requests =
                                       IF r.exc = None THEN @ + 1 ELSE @]

\* demo_complete_pipeline.py, choice 2, second call
CreateRevision ==
    /\ Reviewing /\ pc = "end"
    /\ ext.drafts_produced < MaxDrafts
    /\ \E feedback \in FeedbackTexts, llm \in TweetResponses, dbfail \in 0..1 :
           /\ HumanOp("create_revision", feedback,
                      DraftingAgent_create_revision(state, db, feedback, llm, dbfail))
           /\ ext' = [ext EXCEPT !.ops = @ + 1, !.dbfail = dbfail,
                                 !.drafts_produced = IF llm = "fail" THEN @ ELSE @ + 1]

Next ==
    \/ IntentNode
    \/ ResearchNode
    \/ FilterNode
    \/ SummarizeNode
    \/ DraftNode
    \/ ReviewNode
    \/ Route
    \/ PublishNode
    \/ SetApproved
    \/ Approve
    \/ Reject
    \/ RequestRevision
    \/ CreateRevision

Spec == Init /\ [][Next]_vars

----------------------------------------------------------------------------
\* The filter stage on its own: a state the research stage leaves, an agent
\* constructed with some top_k, and one answer of the LLM

\* how many posts the search may return
MaxPosts == 3
\* the largest top_k an agent is constructed with
MaxK == 3

\* the engagement scores of the posts found (score + 2 * num_comments, where a
\* Reddit score may be below zero)
Engagements == {-20, -10, 0, 20}

\* what the Reddit search may return, in any order, an id possibly twice
FoundLists ==
    UNION {[1..n -> {Post(id, e) : id \in PostIds, e \in Engagements}] :
              n \in 0..MaxPosts}

\* no item for a post in the answer
Omitted == [type |-> "omitted", value |-> 0]

\* the values an item may carry under "score"
ItemScores == {Num(0), Num(10), Num(15), Num(NaN), NotANumber, Null, NoScore}

ItemFor(id, answer) ==
    IF answer = Omitted THEN <<>> ELSE <<ScoreItem(id, answer)>>

\* the answers of the LLM to the scoring prompt: at most one item per post and
\* possibly an item without "post_id"
FilterResponses ==
    {ScoreResponse(k, <<>>) : k \in {"fail", "notjson", "notobject"}}
    \cup {ScoreResponse("ok", ItemFor("a", x) \o ItemFor("b", y) \o ItemFor("", z)) :
             x \in ItemScores \cup {Omitted}, y \in ItemScores \cup {Omitted},
             z \in {Omitted, Num(10)}}

\* the result of the intent and research stages on a query, the search having
\* returned found
Researched(found) ==
    LET understood == IntentAgent_process(create_initial_state("ai news", 1),
                                          create_workflow, OkIntent, 0)
    IN  ResearchAgent_process(understood.state, understood.db, "ok", found, 0)

FilterInit ==
    /\ pc = "filter"
    /\ \E found \in FoundLists :
           /\ state = Researched(found).state
           /\ db = Researched(found).db
    /\ trace = <<"intent", "research">>
    /\ exc = None
    /\ ext = [publish_calls |-> 0, tweets |-> 0, ops |-> 0, decided |-> FALSE,
              revision_requests |-> 0, drafts_produced |-> 0, redrafts |-> 0,
              dbfail |-> 0]
    /\ \E k \in 0..MaxK, llm \in FilterResponses :
           lastOp = [name |-> "filter", arg |-> [top_k |-> k, llm |-> llm]]

\* src/src/workflow/graph.py: _filter_node, the agent and the answer being lastOp's
FilterStage ==
    /\ pc = "filter"
    /\ RunNode("filter", FilteringAgent_process_k(state, db, lastOp.arg.llm, 0,
                                                  lastOp.arg.top_k))
    /\ ext' = [ext EXCEPT !.dbfail = 0]
    /\ UNCHANGED lastOp

FilterNext == FilterStage

FilterSpec == FilterInit /\ [][FilterNext]_vars

----------------------------------------------------------------------------
\* The research stage on its own: a state the intent stage leaves, one answer of
\* the LLM to the strategy prompt, and the posts Reddit lists per subreddit

\* the topics the intent stage may have extracted
Topics == {"ai", "cooking"}

\* src/src/utils/reddit_client.py: subreddit_map of get_relevant_subreddits
\* (the entry for 'ai'; the topics of the model match no other key)
subreddit_map ==
    [ai |-> <<"artificial", "MachineLearning", "OpenAI", "ChatGPT", "singularity">>]

\* src/src/utils/reddit_client.py: RedditClient.get_relevant_subreddits
get_relevant_subreddits(topic) ==
    IF topic \in DOMAIN subreddit_map THEN Take(subreddit_map[topic], 3)
    ELSE <<"news", "worldnews">>

\* the subreddits a strategy of the model may name
Subreddits == {"artificial", "MachineLearning", "OpenAI", "news", "worldnews"}

\* what Reddit lists: post a in one subreddit and post b in one subreddit
Reddits ==
    {[sub \in Subreddits |->
         (IF sub = sa THEN <<Post("a", ea)>> ELSE <<>>)
         \o (IF sub = sb THEN <<Post("b", eb)>> ELSE <<>>)] :
       sa \in Subreddits, sb \in Subreddits, ea \in {0, 20}, eb \in {0, 20}}

\* an answer of the LLM to the strategy prompt: the call raises ("fail"), the
\* text is no JSON ("notjson"), the JSON is a list ("notobject"), or it is an
\* object ("ok") whose "subreddits" are the given list (<<>>: empty or absent)
StrategyAnswer(kind, subreddits) == [kind |-> kind, subreddits |-> subreddits]

StrategyAnswers ==
    {StrategyAnswer(k, <<>>) : k \in {"fail", "notjson", "notobject"}}
    \cup {StrategyAnswer("ok", subs) :
             subs \in {<<>>, <<"news">>, <<"news", "news">>, <<"OpenAI", "worldnews">>}}

\* src/src/agents/research_agent.py: ResearchAgent._generate_research_strategy;
\* the except clause catches JSONDecodeError and KeyError only, and a JSON list
\* takes no item assignment under a string key (TypeError)
generate_research_strategy(topic, llm) ==
    IF llm.kind = "fail" THEN [exc |-> "RuntimeError", subreddits |-> <<>>]
    ELSE IF llm.kind = "notjson"
    THEN [exc |-> None, subreddits |-> get_relevant_subreddits(topic)]
    ELSE IF llm.kind = "notobject" THEN [exc |-> "TypeError", subreddits |-> <<>>]
    ELSE [exc |-> None,
          subreddits |-> IF llm.subreddits = <<>> THEN get_relevant_subreddits(topic)
                         ELSE llm.subreddits]

RECURSIVE search_posts(_, _)
\* src/src/utils/reddit_client.py: RedditClient.search_posts with subreddits given:
\* the top posts of each subreddit, one subreddit after the other (the limit
\* per subreddit, at least 5, is above what a subreddit of the model lists)
search_posts(subreddits, reddit) ==
    IF subreddits = <<>> THEN <<>>
    ELSE reddit[Head(subreddits)] \o search_posts(Tail(subreddits), reddit)

\* src/src/agents/research_agent.py: ResearchAgent._search_reddit
search_reddit(strategy, reddit) == search_posts(strategy.subreddits, reddit)

\* the result of the intent stage on a query, the LLM having extracted topic
Understood(topic) ==
    LET r == IntentAgent_process(create_initial_state("ai news", 1),
                                 create_workflow, OkIntent, 0)
    IN  Result([r.state EXCEPT !.topic = topic],
               [r.db EXCEPT !.intents[1].topic = topic], None)

ResearchInit ==
    /\ pc = "research"
    /\ \E topic \in Topics :
           /\ state = Understood(topic).state
           /\ db = Understood(topic).db
    /\ trace = <<"intent">>
    /\ exc = None
    /\ ext = [publish_calls |-> 0, tweets |-> 0, ops |-> 0, decided |-> FALSE,
              revision_requests |-> 0, drafts_produced |-> 0, redrafts |-> 0,
              dbfail |-> 0]
    /\ \E llm \in StrategyAnswers, reddit \in Reddits :
           lastOp = [name |-> "research", arg |-> [llm |-> llm, reddit |-> reddit]]

\* src/src/workflow/graph.py: _research_node, the answer and the listing being lastOp's
ResearchStage ==
    /\ pc = "research"
    /\ LET strategy == generate_research_strategy(state.topic, lastOp.arg.llm)
           found == search_reddit(strategy, lastOp.arg.reddit)
       IN  \E dbfail \in 0..Len(found) :
             /\ RunNode("research", ResearchAgent_process(state, db, lastOp.arg.llm.kind,
                                                          found, dbfail))
             /\ ext' = [ext EXCEPT !.dbfail = dbfail]
    /\ UNCHANGED lastOp

ResearchNext == ResearchStage

ResearchSpec == ResearchInit /\ [][ResearchNext]_vars

----------------------------------------------------------------------------
\* The intent stage on its own: an initial state with some query, with or
\* without a workflow, and one answer of the LLM

\* the queries of the user: none, blanks only, a request
IntentQueries == {"", " ", "   ", "ai news"}

\* the query consists of white space only
Blank(query) == query \in {" ", "   "}

\* the answers of the LLM to the intent prompt
IntentAnswers ==
    {IntentAnswer(k, Missing, Missing, Missing) : k \in {"fail", "notjson", "notobject"}}
    \cup {IntentAnswer("ok", topic, scope, tone) :
             topic \in {Missing, "", "ai", "cooking"},
             scope \in {Missing, "breaking"},
             tone \in {Missing, "casual"}}

IntentInit ==
    /\ pc = "intent"
    /\ \E q \in IntentQueries, workflow_id \in 0..1 :
           state = create_initial_state(q, workflow_id)
    /\ db = create_workflow
    /\ trace = <<>>
    /\ exc = None
    /\ ext = [publish_calls |-> 0, tweets |-> 0, ops |-> 0, decided |-> FALSE,
              revision_requests |-> 0, drafts_produced |-> 0, redrafts |-> 0,
              dbfail |-> 0]
    /\ \E llm \in IntentAnswers : lastOp = [name |-> "intent", arg |-> llm]

\* src/src/workflow/graph.py: _intent_node, the answer being lastOp's
IntentStage ==
    /\ pc = "intent"
    /\ \E dbfail \in 0..1 :
           /\ RunNode("intent", IntentAgent_process(state, db, lastOp.arg, dbfail))
           /\ ext' = [ext EXCEPT !.dbfail = dbfail]
    /\ UNCHANGED lastOp

IntentNext == IntentStage

IntentSpec == IntentInit /\ [][IntentNext]_vars

----------------------------------------------------------------------------
\* The text of a draft: what _create_draft and create_revision make of the
\* answer of the LLM.  A text is its length, the quote characters that wrap it
\* (outermost first) and whether it ends in the ellipsis the code appends.

\* the longest text of the model
MaxTextLen == 284

\* src/src/agents/drafting_agent.py: self.max_length
max_length == 280

Text(len, wrap, ellipsis) == [len |-> len, wrap |-> wrap, ellipsis |-> ellipsis]

NoText == Text(0, <<>>, FALSE)

\* the lengths of the model: short texts, texts around the 250 characters the
\* fallback takes of the summary, texts around max_length
TextLengths == {0, 1, 2, 3, 4, 249, 250, 251} \cup 276..MaxTextLen

\* the quote characters a text may be wrapped in
Wraps == {<<>>, <<"double">>, <<"single">>, <<"double", "single">>, <<"single", "double">>}

\* the stripped answers of the LLM to a tweet prompt; a wrapped text holds its
\* quote characters (a text of one character may be a lone quote character)
TweetAnswers ==
    {Text(n, w, FALSE) : n \in TextLengths, w \in {<<>>}}
    \cup {Text(n, w, FALSE) : n \in TextLengths \ {0}, w \in {<<"double">>, <<"single">>}}
    \cup {Text(n, w, FALSE) : n \in TextLengths \ 0..3,
                              w \in {<<"double", "single">>, <<"single", "double">>}}

\* tweet[1:-1] when tweet starts and ends with the quote character
Unquote(text, quote) ==
    IF text.wrap # <<>> /\ Head(text.wrap) = quote
    THEN Text(IF text.len >= 2 THEN text.len - 2 ELSE 0, Tail(text.wrap), FALSE)
    ELSE text

\* text[:n]
Slice(text, n) ==
    IF text.len > n THEN Text(n, <<>>, FALSE) ELSE text

\* the limit applied to the ellipsis too: nothing is cut off before it
TruncateKeepingAll(text) ==
    IF text.len > max_length
    THEN Text(Slice(text, max_length).len + 3, <<>>, TRUE)
    ELSE text

\* src/src/agents/drafting_agent.py, lines 88-90 and 195-196:
\* tweet[:self.max_length-3] + "..." when the text is longer than max_length
Truncate(text) ==
    IF text.len > max_length
    THEN Text(Slice(text, max_length - 3).len + 3, <<>>, TRUE)
    ELSE text

\* the summaries (not empty) and topics a draft is made from; a topic is its
\* length and the number of its blanks
SummaryLengths == TextLengths \ {0}
TopicTexts == {[len |-> 2, blanks |-> 0], [len |-> 40, blanks |-> 3]}

\* src/src/agents/drafting_agent.py, lines 97-98: the fallback
\* f"{summary[:250]} #{topic.replace(' ', '')}"[:self.max_length]
fallback_draft(summary, topic) ==
    Slice(Text(Slice(Text(summary, <<>>, FALSE), 250).len + 2 + (topic.len - topic.blanks),
               <<>>, FALSE),
          max_length)

\* what the fallback holds of its two sources: the characters of the summary at
\* its front and the characters of the hashtag ("#" and the topic without its
\* blanks) at its end, one blank between them
fallback_parts(summary, topic) ==
    LET kept == Slice(Text(summary, <<>>, FALSE), 250).len
        hashtag == 1 + (topic.len - topic.blanks)
    IN  [summary |-> kept,
         hashtag |-> Min(hashtag, fallback_draft(summary, topic).len - kept - 1)]

NoParts == [summary |-> 0, hashtag |-> 0]

\* src/src/agents/drafting_agent.py: DraftingAgent._create_draft on texts; failed
\* is whether invoke_llm raised
create_draft(topic, summary, failed, answer) ==
    IF failed THEN fallback_draft(summary, topic)
    ELSE Truncate(Unquote(Unquote(answer, "double"), "single"))

\* src/src/agents/drafting_agent.py: the text create_revision stores (lines 189-198)
revised_draft(answer) == Truncate(Unquote(answer, "double"))

\* a call of one of the two methods: its inputs, and the draft it produced
DraftCall(name, topic, summary, failed, answer) ==
    [name |-> name,
     arg |-> [topic |-> topic, summary |-> summary, failed |-> failed,
              answer |-> answer, produced |-> FALSE, draft |-> NoText,
              parts |-> NoParts]]

DraftInit ==
    /\ pc = "draft"
    /\ state = create_initial_state("ai news", 1)
    /\ db = create_workflow
    /\ trace = <<>>
    /\ exc = None
    /\ ext = [publish_calls |-> 0, tweets |-> 0, ops |-> 0, decided |-> FALSE,
              revision_requests |-> 0, drafts_produced |-> 0, redrafts |-> 0,
              dbfail |-> 0]
    /\ \E name \in {"_create_draft", "create_revision"}, topic \in TopicTexts,
          summary \in SummaryLengths :
           \/ \E answer \in TweetAnswers :
                  lastOp = DraftCall(name, topic, summary, FALSE, answer)
           \/ lastOp = DraftCall(name, topic, summary, TRUE, NoText)

\* _create_draft returns the draft
CreateDraft ==
    /\ pc = "draft"
    /\ lastOp.name = "_create_draft"
    /\ lastOp' = [lastOp EXCEPT
                     !.arg.produced = TRUE,
                     !.arg.draft = create_draft(lastOp.arg.topic, lastOp.arg.summary,
                                                lastOp.arg.failed, lastOp.arg.answer),
                     !.arg.parts = IF lastOp.arg.failed
                                   THEN fallback_parts(lastOp.arg.summary, lastOp.arg.topic)
                                   ELSE NoParts]
    /\ pc' = "end"
    /\ UNCHANGED <<state, db, trace, exc, ext>>

\* create_revision stores the revised draft, or none when invoke_llm raised
ReviseDraft ==
    /\ pc = "draft"
    /\ lastOp.name = "create_revision"
    /\ lastOp' = IF lastOp.arg.failed THEN lastOp
                 ELSE [lastOp EXCEPT !.arg.produced = TRUE,
                                     !.arg.draft = revised_draft(lastOp.arg.answer)]
    /\ pc' = "end"
    /\ UNCHANGED <<state, db, trace, exc, ext>>

DraftNext ==
    \/ CreateDraft
    \/ ReviseDraft

DraftSpec == DraftInit /\ [][DraftNext]_vars

----------------------------------------------------------------------------
\* Two workflows on one store.  pc, state, db, trace and exc are pairs indexed
\* by the workflow: those of run w, db[w] holding the rows whose workflow_id is
\* w.  research_results is one table: its autoincrement id and its unique
\* tweet_id range over the rows of both workflows.  A stage of a run is one
\* step, and the two runs interleave at the stage boundaries.

Workflows == 1..2

\* what the search may return to one run: at most two posts, with distinct ids
TwoFoundLists ==
    {<<>>}
    \cup {<<Post(id, e)>> : id \in PostIds, e \in {0, 20}}
    \cup {<<Post(ids[1], e1), Post(ids[2], e2)>> :
             ids \in {<<"a", "b">>, <<"b", "a">>}, e1 \in {0, 20}, e2 \in {0, 20}}

\* the answers of the LLM to the scoring prompt of one run
TwoScoreAnswers ==
    {ScoreResponse("notjson", <<>>)}
    \cup {ScoreResponse("ok", ItemsOf(m)) : m \in RelevanceMaps}

\* the result of the intent stage of run w
UnderstoodBy(w) ==
    IntentAgent_process(create_initial_state("ai news", w), create_workflow, OkIntent, 0)

\* src/src/database/models.py: the rows of the table research_results
research_results == db[1].results \o db[2].results

\* src/src/agents/research_agent.py: ResearchAgent.process of run w; its inserts
\* go to the one table, and the rows they add are the rows of workflow w
ResearchOf(w, found) ==
    LET r == ResearchAgent_process(state[w],
                                   [db[w] EXCEPT !.results = research_results],
                                   "ok", found, 0)
        added == SubSeq(r.db.results, Len(research_results) + 1, Len(r.db.results))
    IN  Result(r.state, [r.db EXCEPT !.results = db[w].results \o added], r.exc)

\* a node function of run w ran and gave r
RunNodeOf(w, node, r) ==
    /\ state' = [state EXCEPT ![w] = r.state]
    /\ db' = [db EXCEPT ![w] = r.db]
    /\ exc' = [exc EXCEPT ![w] = r.exc]
    /\ trace' = [trace EXCEPT ![w] = Append(@, node)]
    /\ pc' = [pc EXCEPT ![w] = IF r.exc # None THEN "raised" ELSE Edge(node)]

TwoInit ==
    /\ pc = [w \in Workflows |-> "research"]
    /\ state = [w \in Workflows |-> UnderstoodBy(w).state]
    /\ db = [w \in Workflows |-> UnderstoodBy(w).db]
    /\ trace = [w \in Workflows |-> <<"intent">>]
    /\ exc = [w \in Workflows |-> None]
    /\ ext = [publish_calls |-> 0, tweets |-> 0, ops |-> 0, decided |-> FALSE,
              revision_requests |-> 0, drafts_produced |-> 0, redrafts |-> 0,
              dbfail |-> 0]
    /\ \E found \in [Workflows -> TwoFoundLists], llm \in [Workflows -> TwoScoreAnswers] :
           lastOp = [name |-> "run", arg |-> [found |-> found, llm |-> llm]]

\* src/src/workflow/graph.py: _research_node of one of the runs
TwoResearchStage ==
    /\ \E w \in Workflows :
           /\ pc[w] = "research"
           /\ RunNodeOf(w, "research", ResearchOf(w, lastOp.arg.found[w]))
    /\ UNCHANGED <<ext, lastOp>>

\* src/src/workflow/graph.py: _filter_node of one of the runs; the query of the
\* stage reads the ResearchResult rows of its workflow_id
TwoFilterStage ==
    /\ \E w \in Workflows :
           /\ pc[w] = "filter"
           /\ RunNodeOf(w, "filter",
                        FilteringAgent_process(state[w], db[w], lastOp.arg.llm[w], 0))
    /\ UNCHANGED <<ext, lastOp>>

TwoNext ==
    \/ TwoResearchStage
    \/ TwoFilterStage

TwoSpec == TwoInit /\ [][TwoNext]_vars

----------------------------------------------------------------------------
\* Properties

\* the operation of this step is one of the human's calls of the named methods
HumanCalled(names) == ext'.ops = ext.ops + 1 /\ lastOp'.name \in names

\* C1: once a stage has set error on the state, no later stage of the run is
\* invoked (the log of invoked nodes does not grow any more)
C1_NoStageAfterError ==
    [][state.error # None => trace' = trace]_vars

\* C2: after the review node has presented the draft of a run without error, the
\* run leaves the review (to publish, to draft or to end) only when a decision
\* has been supplied since the draft was presented
C2_ReviewWaitsForDecision ==
    [][(pc = "route" /\ pc' # "route" /\ state.error = None) => ext.decided]_vars

\* C3: review is the only branch point: after review the run goes to publish when
\* approved is set, otherwise to draft when revision_requested is set, otherwise
\* to end; publish is followed by end; every other stage has its one successor
C3_ReviewIsOnlyBranch ==
    [][(pc' # pc /\ pc' # "raised") =>
          CASE pc = "intent" -> pc' = "research"
            [] pc = "research" -> pc' = "filter"
            [] pc = "filter" -> pc' = "summarize"
            [] pc = "summarize" -> pc' = "draft"
            [] pc = "draft" -> pc' = "review"
            [] pc = "review" -> pc' = "route"
            [] pc = "route" -> pc' = (IF state.approved THEN "publish"
                                      ELSE IF state.revision_requested THEN "draft"
                                      ELSE "end")
            [] pc = "publish" -> pc' = "end"
            [] OTHER -> FALSE]_vars

\* C3 witness: the run was routed to publish with both signals set
C3_Witness ==
    pc = "publish" /\ state.approved /\ state.revision_requested

StageIndex(node) ==
    CASE node = "intent" -> 1
      [] node = "research" -> 2
      [] node = "filter" -> 3
      [] node = "summarize" -> 4
      [] node = "draft" -> 5
      [] node = "review" -> 6
      [] node = "publish" -> 7

\* C4: the first node invoked is intent, each node invoked next is the following
\* one in the order intent, research, filter, summarize, draft, review, publish,
\* and the only step back is from review to draft
C4_StageOrder ==
    /\ trace # <<>> => trace[1] = "intent"
    /\ \A i \in 1..(Len(trace) - 1) :
          \/ StageIndex(trace[i + 1]) = StageIndex(trace[i]) + 1
          \/ trace[i] = "review" /\ trace[i + 1] = "draft"

\* C4 witness: a run that went through all six stages and back to draft
C4_Witness ==
    Len(trace) >= 8 /\ trace[6] = "review" /\ trace[7] = "draft" /\ trace[8] = "review"

\* C5: draft_version never goes down, and every step that produces a draft
\* leaves it strictly greater than before
C5_VersionStrictlyIncreases ==
    [][/\ state'.draft_version >= state.draft_version
       /\ ext'.drafts_produced > ext.drafts_produced
             => state'.draft_version > state.draft_version]_vars

\* C6: no two persisted Draft rows of the workflow have the same version
C6_UniqueDraftVersions ==
    \A i, j \in 1..Len(db.drafts) :
        i # j => db.drafts[i].version # db.drafts[j].version

\* C7: handle_revision_request on a state whose draft has a row adds exactly one
\* Feedback row (REVISE, comments = the feedback), sets revision_requested and
\* revision_feedback, and changes neither the Workflow status nor a Draft row
C7_RevisionRequestPersistsFeedback ==
    [][(HumanCalled({"handle_revision_request"}) /\ state.draft_id # 0) =>
          /\ db'.feedback = Append(db.feedback,
                                   [draft_id |-> state.draft_id,
                                    feedback_type |-> "REVISE",
                                    comments |-> lastOp'.arg])
          /\ state'.revision_requested
          /\ state'.revision_feedback = lastOp'.arg
          /\ db'.wf_status = db.wf_status
          /\ db'.drafts = db.drafts]_vars

\* C8: the review -> draft edge is never taken more often than revisions were
\* requested (one request, one re-draft)
C8_OneRedraftPerRequest ==
    ext.redrafts <= ext.revision_requests

\* the workflow is published, rejected or has a failure recorded
Terminal ==
    \/ state.published /\ db.wf_status = "COMPLETED"
    \/ state.rejected
    \/ db.wf_status = "FAILED"

\* C9: an approval of a drafted, error-free, not yet terminal workflow whose
\* create_tweet call succeeds (the store accepting every write) leaves one more
\* APPROVE Feedback row, exactly one PublishedPost row, the Workflow COMPLETED,
\* and published set with the returned id and URL
C9_ApprovalPersistsPublication ==
    [][(/\ ext'.tweets = ext.tweets + 1 /\ ext'.dbfail = 0
        /\ state.error = None /\ ~Falsy(state.draft_content) /\ ~Terminal) =>
          /\ Count(db'.feedback, LAMBDA f : f.feedback_type = "APPROVE")
               = Count(db.feedback, LAMBDA f : f.feedback_type = "APPROVE") + 1
          /\ Len(db'.posts) = 1
          /\ db'.wf_status = "COMPLETED"
          /\ state'.published
          /\ state'.tweet_id = ext'.publish_calls
          /\ state'.tweet_url = ext'.publish_calls]_vars

\* C10: once the workflow is terminal (its draft having a row), an approve,
\* reject or revise operation changes neither the Workflow status nor the
\* WorkflowState, and a published workflow keeps exactly one PublishedPost row
C10_TerminalIsImmutable ==
    [][(/\ Terminal /\ state.draft_id # 0
        /\ \/ HumanCalled({"handle_approval", "handle_rejection",
                           "handle_revision_request"})
           \/ ext'.publish_calls # ext.publish_calls) =>
          /\ db'.wf_status = db.wf_status
          /\ state' = state
          /\ (state.published /\ db.wf_status = "COMPLETED") => Len(db'.posts) = 1]_vars

\* C11: an approval whose create_tweet call raises (the store accepting the
\* status write) adds no PublishedPost row, leaves the Workflow FAILED with the
\* error text, sets error, leaves published as it was and returns normally, and
\* create_tweet was called once
C11_PublishFailureIsRecorded ==
    [][(/\ ext'.publish_calls # ext.publish_calls
        /\ ext'.tweets = ext.tweets
        /\ ext'.dbfail = 0) =>
          /\ ext'.publish_calls = ext.publish_calls + 1
          /\ db'.posts = db.posts
          /\ db'.wf_status = "FAILED"
          /\ db'.wf_error = "publish error"
          /\ state'.error = "Publishing failed"
          /\ state'.published = state.published
          /\ exc' = None]_vars

\* C11 witness: the first approval of a drafted workflow failed in create_tweet
C11_Witness ==
    /\ ext.publish_calls = 1 /\ ext.tweets = 0 /\ ext.dbfail = 0
    /\ state.draft_id # 0
    /\ state.error = "Publishing failed" /\ ~state.published
    /\ db.wf_status = "FAILED" /\ db.posts = <<>>

\* C12: a rejection of a drafted, error-free workflow (the store accepting
\* every write) adds one REJECT Feedback row carrying the reason, marks the
\* reviewed Draft REJECTED, leaves the Workflow FAILED with the rejection
\* message, sets rejected and does not call create_tweet
C12_RejectionIsRecorded ==
    [][(/\ HumanCalled({"handle_rejection"}) /\ ext'.dbfail = 0
        /\ state.error = None /\ ~Falsy(state.draft_content)) =>
          /\ db'.feedback =
                Append(db.feedback,
                       [draft_id |-> state.draft_id,
                        feedback_type |-> "REJECT",
                        comments |-> IF lastOp'.arg = "" THEN "Rejected"
                                     ELSE lastOp'.arg])
          /\ \A i \in 1..Len(db'.drafts) :
                db'.drafts[i].id = state.draft_id => db'.drafts[i].status = "REJECTED"
          /\ db'.wf_status = "FAILED"
          /\ db'.wf_error = RejectionMessage(lastOp'.arg)
          /\ state'.rejected
          /\ ext'.publish_calls = ext.publish_calls]_vars

\* C13: a revision whose LLM call succeeds raises draft_version by exactly one
\* and, the store accepting the insert, adds exactly one Draft row with the new
\* version, the new text and status DRAFT; every row there before is unchanged
C13_RevisionAddsOneVersion ==
    [][(/\ HumanCalled({"create_revision"})
        /\ ext'.drafts_produced = ext.drafts_produced + 1) =>
          /\ state'.draft_version = state.draft_version + 1
          /\ SubSeq(db'.drafts, 1, Len(db.drafts)) = db.drafts
          /\ ext'.dbfail = 0 =>
                /\ Len(db'.drafts) = Len(db.drafts) + 1
                /\ db'.drafts[Len(db'.drafts)].version = state.draft_version + 1
                /\ db'.drafts[Len(db'.drafts)].status = "DRAFT"
                /\ db'.drafts[Len(db'.drafts)].content = state'.draft_content]_vars

\* C13 witness: a version-1 draft was revised and both rows are in the store
C13_Witness ==
    /\ lastOp.name = "create_revision"
    /\ state.draft_version = 2
    /\ Len(db.drafts) = 2
    /\ db.drafts[1].version = 1 /\ db.drafts[2].version = 2
    /\ db.drafts[2].status = "DRAFT"

\* C14: a revision whose LLM call raises sets error and leaves draft_version,
\* draft_content and the Draft rows as they were; nothing escapes
C14_FailedRevisionChangesNothing ==
    [][(/\ HumanCalled({"create_revision"})
        /\ ext'.drafts_produced = ext.drafts_produced) =>
          /\ state'.error = "Failed to create revision"
          /\ state'.draft_version = state.draft_version
          /\ state'.draft_content = state.draft_content
          /\ db'.drafts = db.drafts
          /\ exc' = None]_vars

\* C14 witness: the revision of a persisted version-1 draft failed
C14_Witness ==
    /\ lastOp.name = "create_revision"
    /\ state.error = "Failed to create revision"
    /\ state.draft_version = 1 /\ state.draft_content = "tweetA"
    /\ Len(db.drafts) = 1

\* the place of a step in START < INTENT < RESEARCH < FILTER < SUMMARIZE <
\* DRAFT <= HUMAN_REVIEW < PUBLISH < END
StepRank(step) ==
    CASE step = WorkflowStep.START -> 0
      [] step = WorkflowStep.INTENT_UNDERSTANDING -> 1
      [] step = WorkflowStep.RESEARCH -> 2
      [] step = WorkflowStep.FILTER -> 3
      [] step = WorkflowStep.SUMMARIZE -> 4
      [] step = WorkflowStep.DRAFT -> 5
      [] step = WorkflowStep.HUMAN_REVIEW -> 6
      [] step = WorkflowStep.PUBLISH -> 7
      [] step = WorkflowStep.END -> 8

\* C15: current_step never moves to an earlier step, except from HUMAN_REVIEW
\* back to DRAFT
C15_StepNeverGoesBack ==
    [][\/ StepRank(state'.current_step) >= StepRank(state.current_step)
       \/ /\ state.current_step = WorkflowStep.HUMAN_REVIEW
          /\ state'.current_step = WorkflowStep.DRAFT]_vars

\* C15 witness: a draft presented for review was drafted again
C15_Witness ==
    /\ pc = "review"
    /\ state.review_requested
    /\ state.current_step = WorkflowStep.DRAFT

\* the filter stage ran; it returned normally
FilterRan == pc # "filter"
FilterReturned == pc = "summarize"


\* C16: the ranked list has min(K, number of candidates) entries and every
\* entry is one of the candidates
C16_RankedListIsTopK ==
    FilterReturned =>
        /\ Len(state.filtered_tweets) = Min(lastOp.arg.top_k, Len(state.raw_tweets))
        /\ \A i \in 1..Len(state.filtered_tweets) :
              \E j \in 1..Len(state.raw_tweets) :
                  /\ state.filtered_tweets[i].post_id = state.raw_tweets[j].post_id
                  /\ state.filtered_tweets[i].engagement_score
                        = state.raw_tweets[j].engagement_score

\* C16 witness: three candidates were cut to the top two
C16_Witness ==
    /\ FilterReturned
    /\ lastOp.arg.top_k = 2
    /\ Len(state.raw_tweets) = 3
    /\ Len(state.filtered_tweets) = 2

\* the candidates with their scores, in the incoming order
ScoredCandidates ==
    ScorePosts(state.raw_tweets, score_posts(state.raw_tweets, lastOp.arg.llm).scores)

\* C17: the ranked list is in non-increasing combined_score order, and the
\* entries of one combined_score are, in order, the first candidates of that
\* combined_score in the incoming list
C17_RankedListIsSorted ==
    (FilterReturned /\ state.raw_tweets # <<>>) =>
        /\ \A i, j \in 1..Len(state.filtered_tweets) :
              i < j => FloatGe(state.filtered_tweets[i].combined_score,
                               state.filtered_tweets[j].combined_score)
        /\ \A i \in 1..Len(state.filtered_tweets) :
              LET Same(p) == p.combined_score = state.filtered_tweets[i].combined_score
                  kept == SelectSeq(state.filtered_tweets, Same)
              IN  kept = Take(SelectSeq(ScoredCandidates, Same), Len(kept))

\* C18: on a non-empty candidate list the filter returns a ranked list, whatever
\* the LLM call did: nothing is raised and error is not set
C18_FilterNeverFails ==
    (FilterRan /\ state.raw_tweets # <<>>) =>
        /\ FilterReturned
        /\ exc = None
        /\ state.error = None

\* the answer cannot be decoded: it is no JSON, no object, or one of its items
\* lacks "post_id" or "score" or carries a score that is no number
Undecodable(llm) ==
    \/ llm.kind \in {"notjson", "notobject"}
    \/ /\ llm.kind = "ok"
       /\ \E i \in 1..Len(llm.items) :
             \/ llm.items[i].post_id = ""
             \/ llm.items[i].score.type \in {"string", "null", "absent"}

\* C19: when the answer cannot be decoded, the filter returns and every ranked
\* candidate has relevance 0.5
C19_UndecodableMeansNeutral ==
    (FilterRan /\ state.raw_tweets # <<>> /\ Undecodable(lastOp.arg.llm)) =>
        /\ FilterReturned
        /\ \A i \in 1..Len(state.filtered_tweets) :
              state.filtered_tweets[i].relevance_score = Neutral

\* C20: every ranked candidate has a relevance_score within [0, 1]
C20_RelevanceInUnitInterval ==
    FilterReturned =>
        \A i \in 1..Len(state.filtered_tweets) :
            /\ FloatGe(state.filtered_tweets[i].relevance_score, 0)
            /\ FloatGe(10, state.filtered_tweets[i].relevance_score)

\* every candidate was given the same relevance, a number
SameRelevance ==
    \A i, j \in 1..Len(ScoredCandidates) :
        /\ ScoredCandidates[i].relevance_score # NaN
        /\ ScoredCandidates[i].relevance_score = ScoredCandidates[j].relevance_score

\* C21: when every candidate has the same relevance, the ranked list is the
\* candidates in descending engagement_score order: its engagement scores are
\* those of the first entries of the candidate list (which the research stage
\* left in descending engagement order), for negative, zero and positive scores
C21_EqualRelevanceRanksByEngagement ==
    (FilterReturned /\ SameRelevance) =>
        /\ \A i, j \in 1..Len(state.filtered_tweets) :
              i < j => state.filtered_tweets[i].engagement_score
                          >= state.filtered_tweets[j].engagement_score
        /\ \A i \in 1..Len(state.filtered_tweets) :
              state.filtered_tweets[i].engagement_score
                  = state.raw_tweets[i].engagement_score

\* the research stage ran; it returned normally
ResearchRan == pc # "research"
ResearchReturned == pc = "filter"

\* C22: the candidate list the research stage returns holds no two candidates
\* with the same post_id
C22_CandidatesHaveDistinctIds ==
    ResearchReturned =>
        \A i, j \in 1..Len(state.raw_tweets) :
            i # j => state.raw_tweets[i].post_id # state.raw_tweets[j].post_id

\* what _search_reddit returned to the research stage
Found ==
    search_reddit(generate_research_strategy(state.topic, lastOp.arg.llm),
                  lastOp.arg.reddit)

\* the ResearchResult rows that carry the post id
RowsOf(id) == {r \in 1..Len(db.results) : db.results[r].tweet_id = id}

\* how often the post id occurs among the candidates
Occurrences(id) ==
    Cardinality({i \in 1..Len(state.raw_tweets) : state.raw_tweets[i].post_id = id})

\* C23: no post id has more than one ResearchResult row, a post id found more
\* than once has exactly one; the rejected insert is swallowed, so the stage
\* returns without error and every candidate found, repeated ones included, is
\* in raw_tweets
C23_DuplicateInsertIsSwallowed ==
    ResearchReturned =>
        /\ \A id \in PostIds :
              /\ Cardinality(RowsOf(id)) <= 1
              /\ Occurrences(id) >= 2 => Cardinality(RowsOf(id)) = 1
        /\ state.raw_tweets = SortDesc(Found, "engagement_score")
        /\ exc = None
        /\ state.error = None

\* C23 witness: post a was found twice, both are candidates, one row was saved
C23_Witness ==
    /\ ResearchReturned
    /\ Occurrences("a") = 2
    /\ Cardinality(RowsOf("a")) = 1
    /\ Len(state.raw_tweets) = 2

\* the answer gives no usable strategy: the call failed, the text is no JSON
\* object, or the object names no subreddits
NoStrategy(llm) ==
    \/ llm.kind \in {"fail", "notjson", "notobject"}
    \/ llm.kind = "ok" /\ llm.subreddits = <<>>

\* C24: when the LLM gives no usable strategy, the research stage searches the
\* subreddits of the static lookup table for the topic and returns normally:
\* nothing is raised and error is not set
C24_StrategyFallsBackToLookup ==
    (ResearchRan /\ NoStrategy(lastOp.arg.llm)) =>
        /\ ResearchReturned
        /\ exc = None
        /\ state.error = None
        /\ state.raw_tweets =
              SortDesc(search_posts(get_relevant_subreddits(state.topic),
                                    lastOp.arg.reddit), "engagement_score")

\* what the operation of this step gave
Outcome == Result(state', db', exc')

\* the outcome is one the operation has when every store write succeeds: the
\* same exception or none, and the same state (but for draft_id, the key of the
\* row that was to be written)
SameOutcome(faulty, clean) ==
    /\ faulty.exc = clean.exc
    /\ [faulty.state EXCEPT !.draft_id = 0] = [clean.state EXCEPT !.draft_id = 0]

\* the id create_tweet returned in this step, 0 when it raised
TweetOfStep == IF ext'.tweets = ext.tweets THEN 0 ELSE ext'.publish_calls

\* C25: a stage or review operation in which a store write fails ends as it
\* ends when no write fails (for some answer of its external collaborator):
\* the failure sets no error, raises nothing and leaves the in-memory result
\* as it is
C25_StoreFailureIsNeverFatal ==
    [][ext'.dbfail # 0 =>
          /\ trace' = Append(trace, "intent") =>
                \E llm \in IntentResponses :
                    SameOutcome(Outcome, IntentAgent_process(state, db, llm, 0))
          /\ trace' = Append(trace, "research") =>
                \E llm \in StrategyResponses, found \in SearchResults :
                    SameOutcome(Outcome, ResearchAgent_process(state, db, llm, found, 0))
          /\ trace' = Append(trace, "filter") =>
                \E llm \in ScoreResponses :
                    SameOutcome(Outcome, FilteringAgent_process(state, db, llm, 0))
          /\ trace' = Append(trace, "summarize") =>
                \E llm \in SummaryResponses :
                    SameOutcome(Outcome, SummarizationAgent_process(state, db, llm, 0))
          /\ trace' = Append(trace, "draft") =>
                \E llm \in TweetResponses :
                    SameOutcome(Outcome, DraftingAgent_process(state, db, llm, 0))
          /\ (trace' = Append(trace, "publish") \/ HumanCalled({"handle_approval"})) =>
                SameOutcome(Outcome, handle_approval(state, db, TweetOfStep, 0))
          /\ HumanCalled({"handle_rejection"}) =>
                SameOutcome(Outcome, handle_rejection(state, db, lastOp'.arg, 0))
          /\ HumanCalled({"handle_revision_request"}) =>
                SameOutcome(Outcome, handle_revision_request(state, db, lastOp'.arg, 0))
          /\ HumanCalled({"create_revision"}) =>
                \E llm \in TweetResponses :
                    SameOutcome(Outcome,
                                DraftingAgent_create_revision(state, db, lastOp'.arg,
                                                              llm, 0))]_vars

\* the operation returned normally with error set
ReturnedError(r) == r.exc = None /\ r.state.error # None

\* C26: in every state, the intent stage, the summarize stage, the publish
\* operation and a revision that are about to run return the state with error
\* set, and raise nothing, when the call of their external collaborator fails
C26_CollaboratorFailureSetsError ==
    /\ pc = "intent" => ReturnedError(IntentAgent_process(state, db, FailedIntent, 0))
    /\ pc = "summarize" =>
          ReturnedError(SummarizationAgent_process(state, db, "fail", 0))
    /\ (pc = "publish" \/ (Reviewing /\ pc = "end")) =>
          ReturnedError(handle_approval(state, db, 0, 0))
    /\ (Reviewing /\ pc = "end") =>
          \A feedback \in FeedbackTexts :
              ReturnedError(DraftingAgent_create_revision(state, db, feedback, "fail", 0))

\* the intent stage ran
IntentRan == pc # "intent"

\* C27: on an empty or blank query the intent stage sets the error of the path
\* that makes no LLM call, leaves topic, scope and tone unset and creates no
\* Intent row
C27_BlankQueryIsRejected ==
    (IntentRan /\ (state.user_query = "" \/ Blank(state.user_query))) =>
        /\ state.error = "No user query provided"
        /\ state.topic = None /\ state.scope = None /\ state.tone = None
        /\ db.intents = <<>>
        /\ exc = None

\* the LLM answered, and the answer is no JSON object or holds no "topic"
NoTopicDecoded(llm) ==
    \/ llm.kind \in {"notjson", "notobject"}
    \/ llm.kind = "ok" /\ llm.topic = Missing

\* C28: when the answer to a query cannot be decoded into the required fields,
\* the intent stage sets error, leaves topic unset and creates no Intent row
C28_UndecodableIntentIsAnError ==
    (IntentRan /\ state.user_query # "" /\ NoTopicDecoded(lastOp.arg)) =>
        /\ state.error # None
        /\ Falsy(state.topic)
        /\ db.intents = <<>>
        /\ exc = None

\* the summarize stage was the last stage to run
SummarizeRan == trace # <<>> /\ trace[Len(trace)] = "summarize"

\* C29: the summarize stage on an empty ranked list sets its error whatever the
\* LLM would answer, leaves summary, key_trends and expert_opinions unset,
\* creates no Insight row and raises nothing
C29_EmptyRankedListIsAnError ==
    (SummarizeRan /\ state.filtered_tweets = <<>>) =>
        /\ state.error = "No filtered posts to summarize"
        /\ state.summary = None
        /\ state.key_trends = None
        /\ state.expert_opinions = None
        /\ db.insights = <<>>
        /\ exc = None
        /\ pc = "draft"

\* C29 witness: the research stage found nothing for the topic, the filter
\* passed the empty list on and the summarize stage ran on it
C29_Witness ==
    /\ trace = <<"intent", "research", "filter", "summarize">>
    /\ state.topic = "ai"
    /\ state.current_step = WorkflowStep.RESEARCH
    /\ state.filtered_tweets = <<>>
    /\ state.error = "No filtered posts to summarize"

\* C30: every draft produced, by _create_draft from the answer of the LLM, by
\* its fallback or by create_revision, has at most 280 characters
C30_DraftWithinLimit ==
    lastOp.arg.produced => lastOp.arg.draft.len <= 280

\* C30 witness: an answer longer than the limit was cut to a draft of 280
\* characters
C30_Witness ==
    /\ lastOp.arg.produced
    /\ ~lastOp.arg.failed
    /\ lastOp.arg.answer.len > 280
    /\ lastOp.arg.draft.len = 280
    /\ lastOp.arg.draft.ellipsis

\* the answer of the LLM without its wrapping quote characters
Stripped(answer) == Unquote(Unquote(answer, "double"), "single")

\* C31: a draft made from an answer of the LLM, by _create_draft or by
\* create_revision, is the answer without its wrapping quotes when that has at
\* most 280 characters, and otherwise its first 277 characters followed by the
\* three characters of the ellipsis
C31_LongTextIsCutTo277PlusEllipsis ==
    (lastOp.arg.produced /\ ~lastOp.arg.failed) =>
        IF Stripped(lastOp.arg.answer).len > 280
        THEN /\ lastOp.arg.draft.len = 277 + 3
             /\ lastOp.arg.draft.ellipsis
        ELSE lastOp.arg.draft = Stripped(lastOp.arg.answer)

\* C38: the fallback draft holds the first 280 - (len(topic) + 1) characters of
\* the summary (all of a shorter summary) and, after them, the complete
\* hashtag: "#" and the topic without its blanks
C38_FallbackIsSummaryAndHashtag ==
    (lastOp.name = "_create_draft" /\ lastOp.arg.produced /\ lastOp.arg.failed) =>
        /\ lastOp.arg.parts.summary
              = Min(lastOp.arg.summary, 280 - (lastOp.arg.topic.len + 1))
        /\ lastOp.arg.parts.hashtag
              = 1 + (lastOp.arg.topic.len - lastOp.arg.topic.blanks)

\* C32: a new state has current_step START, draft_version 0 and published
\* false; no step changes workflow_id or user_query, and topic, scope and tone
\* change only in a step of the intent stage
C32_IdentityAndIntentFields ==
    /\ state.current_step = WorkflowStep.START
    /\ state.draft_version = 0
    /\ ~state.published
    /\ [][/\ state'.workflow_id = state.workflow_id
          /\ state'.user_query = state.user_query
          /\ (<<state'.topic, state'.scope, state'.tone>>
                 # <<state.topic, state.scope, state.tone>>)
                => trace' = Append(trace, "intent")]_vars

\* C32 witness: the intent stage set the three fields, and the run went on to
\* a revision and a publication that left them and the identity as they were
C32_Witness ==
    /\ state.workflow_id = 1 /\ state.user_query = "ai news"
    /\ state.topic = "ai" /\ state.scope = "latest" /\ state.tone = "informative"
    /\ state.draft_version = 2
    /\ state.published

\* C34: once the workflow is published, no step calls PublishService again
C34_NoPublishCallAfterPublished ==
    [][state.published => ext'.publish_calls = ext.publish_calls]_vars

\* C35: no step calls PublishService on a state that has error set, is rejected
\* or holds no non-empty draft_content
C35_NoPublishCallOnFailedState ==
    [][(state.error # None \/ state.rejected \/ Falsy(state.draft_content))
           => ext'.publish_calls = ext.publish_calls]_vars

\* C36: an error that is set keeps its value in every later step
C36_ErrorIsNeverOverwritten ==
    [][state.error # None => state'.error = state.error]_vars

\* the FilteredContent rows that refer to a ResearchResult row of the post id
SelectionsOf(id) ==
    {f \in 1..Len(db.filtered) :
        \E r \in RowsOf(id) : db.filtered[f].research_result_id = db.results[r].id}

\* C37: when the filter stage has returned and no store access of it failed,
\* every entry of the ranked list whose post has a ResearchResult row has exactly
\* one FilteredContent row, with the entry's 1-based position as rank; an entry
\* whose post has no row has no FilteredContent row and is in the list all the same
C37_OneSelectionRowPerRankedCandidate ==
    (pc = "summarize" /\ ext.dbfail = 0) =>
        /\ Len(state.filtered_tweets) = Min(top_k, Len(state.raw_tweets))
        /\ \A i \in 1..Len(state.filtered_tweets) :
              LET id == state.filtered_tweets[i].post_id
              IN  IF RowsOf(id) = {}
                  THEN SelectionsOf(id) = {}
                  ELSE /\ Cardinality(SelectionsOf(id)) = 1
                       /\ \A f \in SelectionsOf(id) : db.filtered[f].rank = i

\* run w on a store of its own: the research stage, and the filter stage after it
ResearchedAlone(w) ==
    ResearchAgent_process(UnderstoodBy(w).state, UnderstoodBy(w).db, "ok",
                          lastOp.arg.found[w], 0)

FilteredAlone(w) ==
    FilteringAgent_process(ResearchedAlone(w).state, ResearchedAlone(w).db,
                           lastOp.arg.llm[w], 0)

\* the ResearchResult rows of a workflow, without the autoincrement id
Candidates(d) ==
    [i \in 1..Len(d.results) |->
        [tweet_id |-> d.results[i].tweet_id,
         engagement_score |-> d.results[i].engagement_score]]

\* the FilteredContent rows of a workflow, each with the post its
\* research_result_id refers to
RankedSelections(d) ==
    [i \in 1..Len(d.filtered) |->
        [rank |-> d.filtered[i].rank,
         relevance_score |-> d.filtered[i].relevance_score,
         tweet_id |-> d.results[CHOOSE r \in 1..Len(d.results) :
                           d.results[r].id = d.filtered[i].research_result_id].tweet_id]]

\* C33: in every interleaving of two runs, the ResearchResult rows each run has
\* after its research stage and the FilteredContent rows it has after its filter
\* stage are those the run gets on a store of its own
C33_RowsAsIfAlone ==
    \A w \in Workflows :
        /\ pc[w] \in {"filter", "summarize"} =>
               Candidates(db[w]) = Candidates(ResearchedAlone(w).db)
        /\ pc[w] = "summarize" =>
               RankedSelections(db[w]) = RankedSelections(FilteredAlone(w).db)

====
